---------------------------- MODULE Spec2Model ----------------------------
(***************************************************************************)
(* pgsql-dbus: a D-Bus service (org.postgresql.instance) that bridges the  *)
(* methods Ping and Query and the properties Host and Port to a PostgreSQL *)
(* instance through libpq.                                                 *)
(*                                                                         *)
(* The model follows src/pgsql-dbus.c.  The handler method_query is        *)
(* modelled statement by statement: pc is the position of the single       *)
(* thread of main()'s event loop.  libpq and sd-bus are libraries outside  *)
(* the repository: each call to them draws its outcome from the outcomes   *)
(* its documentation allows (a connection status, a result, a probe code,  *)
(* success or a negative errno).                                           *)
(***************************************************************************)
EXTENDS Integers, Sequences, FiniteSets, TLC

VARIABLES
    host, port,     \* context c (main), written through the Host/Port properties
    pc,             \* position of the event loop / of the running handler
    method,         \* the method being dispatched: "none", "Query", "Ping"
    arg,            \* the body of the incoming method call m
    connStatus,     \* PQstatus(conn) of the handler's conn ("none" before connecting)
    res,            \* the PGresult the handler obtained from PQexec
    openConns,      \* PGconn objects of the process not yet PQfinish'ed
    openResults,    \* PGresult objects of the process not yet PQclear'ed
    nFields, i,     \* locals of method_query
    reply,          \* the sd_bus_message *reply under construction
    sent,           \* messages the handler handed to the bus for this call
    rc,             \* the handler's local rc: the probe code in method_ping,
                    \* and the handler's return code when pc = "done"
    log,            \* lines written to stderr during this call
    dbCalls,        \* libpq calls made during this call, in order
    prevFailSoft,   \* what the caller of the last fail-soft Query received
    probe,          \* input/output of a pure function applied on its own
    vals            \* locals vals[] and port[] of the handlers: the host and
                    \* the port text handed to libpq

vars == <<host, port, pc, method, arg, connStatus, res, openConns, openResults,
          nFields, i, reply, sent, rc, log, dbCalls, prevFailSoft, probe, vals>>

reqVars == <<method, arg, connStatus, res, nFields, i, reply, sent, rc, log, dbCalls,
             vals>>

----------------------------------------------------------------------------
(* Bounds of the model *)

MaxFields == 2      \* columns of a result
MaxRows == 2        \* rows of a result
MaxOpen == 2        \* a call is accepted while fewer objects than this leaked
MaxOid == 1800      \* type identifiers 0..MaxOid are given to oid_to_signature
MaxLen == 3         \* characters of a short column text

----------------------------------------------------------------------------
(* Type identifiers of server/catalog/pg_type_d.h used by the program *)

BOOLOID == 16
NAMEOID == 19
INT8OID == 20
INT2OID == 21
INT4OID == 23
TEXTOID == 25
OIDOID == 26
JSONOID == 114
XMLOID == 142
FLOAT4OID == 700
FLOAT8OID == 701
BPCHAROID == 1042
VARCHAROID == 1043

\* errno of a failing sd-bus call (errno.h)
ENOMEM == 12

\* c.port = 15433 in main
DefaultPort == 15433

----------------------------------------------------------------------------
(* Type Mapper *)

\* oid_to_signature with the 64-bit integer given the tag of the 32-bit one
oid_to_signature_Int8AsInt(oid) ==
    CASE oid = BOOLOID -> "b"
      [] oid = INT2OID -> "n"
      [] oid \in {OIDOID, INT4OID, INT8OID} -> "i"
      [] oid \in {FLOAT4OID, FLOAT8OID} -> "d"
      [] OTHER -> "s"

\* oid_to_signature with the object-id case lost
oid_to_signature_NoOid(oid) ==
    CASE oid = BOOLOID -> "b"
      [] oid = INT2OID -> "n"
      [] oid = INT4OID -> "i"
      [] oid = INT8OID -> "x"
      [] oid \in {FLOAT4OID, FLOAT8OID} -> "d"
      [] OTHER -> "s"

oid_to_signature(oid) ==
    CASE oid = BOOLOID -> "b"
      [] oid = INT2OID -> "n"
      [] oid \in {OIDOID, INT4OID} -> "i"
      [] oid = INT8OID -> "x"
      [] oid \in {FLOAT4OID, FLOAT8OID} -> "d"
      [] oid \in {XMLOID, JSONOID, VARCHAROID, BPCHAROID, NAMEOID, TEXTOID} -> "s"
      [] OTHER -> "s"

----------------------------------------------------------------------------
(* Column texts: a text is the sequence of its characters *)

DigitChars == {"0", "1", "2", "3", "4", "5", "6", "7", "8", "9"}

DigitVal(c) ==
    CASE c = "0" -> 0 [] c = "1" -> 1 [] c = "2" -> 2 [] c = "3" -> 3
      [] c = "4" -> 4 [] c = "5" -> 5 [] c = "6" -> 6 [] c = "7" -> 7
      [] c = "8" -> 8 [] c = "9" -> 9

\* the character of a decimal digit
DigitChar(d) ==
    CASE d = 0 -> "0" [] d = 1 -> "1" [] d = 2 -> "2" [] d = 3 -> "3"
      [] d = 4 -> "4" [] d = 5 -> "5" [] d = 6 -> "6" [] d = 7 -> "7"
      [] d = 8 -> "8" [] d = 9 -> "9"

\* the "%d" conversion of sprintf for a number that is not negative
RECURSIVE FormatDecimal(_)
FormatDecimal(n) ==
    IF n < 10 THEN <<DigitChar(n)>>
    ELSE Append(FormatDecimal(n \div 10), DigitChar(n % 10))

\* isspace() on the characters a column text of the model can hold
isspace(c) == c = " "

RECURSIVE SkipSpace(_)
SkipSpace(s) ==
    IF s # <<>> /\ isspace(Head(s)) THEN SkipSpace(Tail(s)) ELSE s

HasSign(s) == s # <<>> /\ Head(s) \in {"-", "+"}

IsNegative(s) == s # <<>> /\ Head(s) = "-"

\* a sign skipped only when it is a minus
SkipSign_MinusOnly(s) == IF IsNegative(s) THEN Tail(s) ELSE s

SkipSign(s) == IF HasSign(s) THEN Tail(s) ELSE s

\* the value of the longest prefix of decimal digits of s, continuing from acc
RECURSIVE Accumulate(_, _)
Accumulate(s, acc) ==
    IF s # <<>> /\ Head(s) \in DigitChars
    THEN Accumulate(Tail(s), acc * 10 + DigitVal(Head(s)))
    ELSE acc

\* what follows the longest prefix of decimal digits of s
RECURSIVE SkipDigits(_)
SkipDigits(s) ==
    IF s # <<>> /\ Head(s) \in DigitChars THEN SkipDigits(Tail(s)) ELSE s

\* the number of leading decimal digits of s
DigitCount(s) == Len(s) - Len(SkipDigits(s))

\* A long (64 bits, LP64) is a word of four 16-bit limbs, the least
\* significant first, in two's complement.
Radix == 256 * 256
HalfRadix == 128 * 256

Word(a, b, c, d) == <<a, b, c, d>>
LONG_MAX == Word(Radix - 1, Radix - 1, Radix - 1, HalfRadix - 1)
LONG_MIN == Word(0, 0, 0, HalfRadix)

\* 10 * w + d on 64 bits, with the carry out of the top limb
MulAdd10(w, d) ==
    LET a == w[1] * 10 + d
        b == w[2] * 10 + (a \div Radix)
        c == w[3] * 10 + (b \div Radix)
        e == w[4] * 10 + (c \div Radix)
    IN  [w |-> Word(a % Radix, b % Radix, c % Radix, e % Radix), carry |-> e \div Radix]

\* the magnitude of the longest prefix of decimal digits of s, continuing
\* from acc; over is set once the magnitude no longer fits 64 bits, and the
\* remaining digits are only consumed
RECURSIVE Magnitude(_, _)
Magnitude(s, acc) ==
    IF s # <<>> /\ Head(s) \in DigitChars
    THEN IF acc.over
         THEN Magnitude(Tail(s), acc)
         ELSE LET m == MulAdd10(acc.w, DigitVal(Head(s)))
              IN  Magnitude(Tail(s), [w |-> m.w, over |-> m.carry > 0])
    ELSE acc

\* 0 - w on 64 bits
Negate(w) ==
    LET a == (Radix - 1 - w[1]) + 1
        b == (Radix - 1 - w[2]) + (a \div Radix)
        c == (Radix - 1 - w[3]) + (b \div Radix)
        e == (Radix - 1 - w[4]) + (c \div Radix)
    IN  Word(a % Radix, b % Radix, c % Radix, e % Radix)

\* strtol(value, NULL, 10) and strtoll(value, NULL, 10): leading white space,
\* an optional sign, then the longest run of digits; 0 when there is none;
\* LONG_MAX or LONG_MIN when the number is out of range
strtol(s) ==
    LET t == SkipSpace(s)
        m == Magnitude(SkipSign(t), [w |-> Word(0, 0, 0, 0), over |-> FALSE])
    IN  IF IsNegative(t)
        THEN IF m.over \/ m.w[4] >= HalfRadix THEN LONG_MIN ELSE Negate(m.w)
        ELSE IF m.over \/ m.w[4] >= HalfRadix THEN LONG_MAX ELSE m.w

\* a limb read as a signed 16-bit number
Signed16(limb) == IF limb >= HalfRadix THEN limb - Radix ELSE limb

\* (int16_t) of a long: its low 16 bits, signed
CastInt16(w) == Signed16(w[1])

\* a conversion to int32_t that clamps what does not fit
CastInt32_Clamp(w) ==
    IF w[4] = 0 /\ w[3] = 0 /\ w[2] >= HalfRadix
    THEN (HalfRadix - 1) * Radix + (Radix - 1)
    ELSE Signed16(w[2]) * Radix + w[1]

\* (int32_t) of a long: its low 32 bits, signed
CastInt32(w) == Signed16(w[2]) * Radix + w[1]

\* (int64_t) of a long long: the same 64 bits
CastInt64(w) == w

\* a decimal m / 10^k without trailing zeros in its fraction
RECURSIVE Normalise(_, _)
Normalise(m, k) ==
    IF k > 0 /\ m % 10 = 0 THEN Normalise(m \div 10, k - 1) ELSE <<m, k>>

\* strtod(value, NULL) on decimal literals "[ws][sign]digits[.digits]": the
\* result is <<m, k>>, the number m / 10^k
strtod(s) ==
    LET t == SkipSpace(s)
        u == SkipSign(t)
        whole == Accumulate(u, 0)
        rest == SkipDigits(u)
        frac == IF rest # <<>> /\ Head(rest) = "." THEN Tail(rest) ELSE <<>>
        k == IF DigitCount(u) + DigitCount(frac) = 0 THEN 0 ELSE DigitCount(frac)
        m == IF k = 0 THEN whole ELSE Accumulate(frac, whole)
        d == Normalise(IF DigitCount(u) + DigitCount(frac) = 0 THEN 0 ELSE m, k)
    IN  IF IsNegative(t) THEN <<0 - d[1], d[2]>> ELSE d

----------------------------------------------------------------------------
(* Value Encoder *)

\* A scalar written into a message: ctype is the C type of the object whose
\* address is given to sd_bus_message_append_basic; its value is the number
\* n / 10^scale, or the 64-bit word wide for an int64_t, or the string s.
Scalar(ctype, n, scale, s) ==
    [ctype |-> ctype, n |-> n, scale |-> scale, s |-> s, wide |-> Word(0, 0, 0, 0)]

Wide(w) == [Scalar("int64_t", 0, 0, <<>>) EXCEPT !.wide = w]

Unset == Scalar("unset", 0, 0, <<>>)

KnownOids ==
    {BOOLOID, INT2OID, OIDOID, INT4OID, INT8OID, FLOAT4OID, FLOAT8OID,
     XMLOID, JSONOID, VARCHAROID, BPCHAROID, NAMEOID, TEXTOID}

\* the cases of the switch of sd_bus_message_append_pgsql_value that
\* dereference value themselves
ParsedOids == {BOOLOID, INT2OID, OIDOID, INT4OID, INT8OID, FLOAT4OID, FLOAT8OID}

\* a boolean that is true for the text "t" only
EncodeBool_WholeText(text) == IF text = <<"t">> THEN 1 ELSE 0

\* b = (*value == 't') ? 1 : 0; the first char of an empty text is its NUL
EncodeBool(text) == IF text # <<>> /\ Head(text) = "t" THEN 1 ELSE 0

\* the scalar a case of the switch computes from a column text
EncodeText(oid, text) ==
    CASE oid = BOOLOID -> Scalar("int", EncodeBool(text), 0, <<>>)
      [] oid = INT2OID -> Scalar("int16_t", CastInt16(strtol(text)), 0, <<>>)
      [] oid \in {OIDOID, INT4OID} -> Scalar("int32_t", CastInt32(strtol(text)), 0, <<>>)
      [] oid = INT8OID -> Wide(CastInt64(strtol(text)))
      [] oid \in {FLOAT4OID, FLOAT8OID} ->
            Scalar("double", strtod(text)[1], strtod(text)[2], <<>>)
      [] OTHER -> Scalar("char*", 0, 0, text)

\* numbers a read through a null pointer may leave in the local
Garbage == {0, 1}

\* the scalars a case of the switch may compute when value is NULL: the
\* cases of ParsedOids read through the null pointer (undefined behaviour);
\* sd_bus_message_append_basic writes a NULL string as the empty string
EncodeNull(oid) ==
    IF oid = INT8OID
    THEN {Wide(Word(g, 0, 0, 0)) : g \in Garbage}
    ELSE IF oid \in ParsedOids
    THEN {Scalar(EncodeText(oid, <<>>).ctype, g, 0, <<>>) : g \in Garbage}
    ELSE {Scalar("char*", 0, 0, <<>>)}

Outcome(r, crash, val) == [rc |-> r, crash |-> crash, val |-> val]

\* sd_bus_message_append_pgsql_value(m, sig, oid, value): the outcomes of the
\* call: it returns rc with val appended when rc >= 0, or the process dies
sd_bus_message_append_pgsql_value(sig, oid, value) ==
    IF oid \notin KnownOids
    THEN {Outcome(0 - 1, FALSE, Unset)}
    ELSE IF value.null
    THEN {Outcome(0, FALSE, v) : v \in EncodeNull(oid)}
           \cup {Outcome(0, TRUE, Unset) : x \in {oid} \cap ParsedOids}
           \cup {Outcome(0 - ENOMEM, FALSE, Unset)}
    ELSE {Outcome(0, FALSE, EncodeText(oid, value.text)),
          Outcome(0 - ENOMEM, FALSE, Unset)}

----------------------------------------------------------------------------
(* Inputs of the model: calls, database outcomes *)

Hosts == {"/tmp", "db.example"}
Ports == {DefaultPort, 5432}

\* the body of a method call: its signature and, for "s", the string
CallBody(sig, str) == [sig |-> sig, str |-> str]
NoBody == CallBody("", "")
CallBodies == {NoBody, CallBody("i", ""), CallBody("s", "SELECT")}

\* column texts libpq hands out
Texts == {<<"t">>, <<"4", "2">>}

\* result columns: PQfname and PQftype of a column
Column(name, oid) == [name |-> name, oid |-> oid]
ColumnPool ==
    {Column("flag", BOOLOID), Column("small", INT2OID), Column("ratio", FLOAT8OID),
     Column("label", TEXTOID), Column("amount", 1700)}

Result(status, cols, rows) == [status |-> status, cols |-> cols, rows |-> rows]
NoRes == Result("none", <<>>, <<>>)

\* the rows of a result of k columns and n rows: any first row; a later row
\* holds one text in all its columns
RowSets(k, n) ==
    IF n = 0 THEN {<<>>}
    ELSE {<<first>> \o later :
            first \in [1..k -> Texts],
            later \in [1..(n - 1) -> {[c \in 1..k |-> t] : t \in Texts}]}

\* the PGresult objects PQexec may return
Results ==
    {Result(st, <<>>, <<>>) :
        st \in {"PGRES_COMMAND_OK", "PGRES_EMPTY_QUERY", "PGRES_FATAL_ERROR"}}
    \cup UNION {UNION {
            {Result("PGRES_TUPLES_OK", c, r) : c \in [1..k -> ColumnPool], r \in RowSets(k, n)}
         : n \in 0..MaxRows} : k \in 0..MaxFields}

ConnStatuses == {"CONNECTION_OK", "CONNECTION_BAD"}

\* PQpingParams: PQPING_OK, PQPING_REJECT, PQPING_NO_RESPONSE,
\* PQPING_NO_ATTEMPT, and a code the switch has no case for
PingCodes == 0..4

\* libpq accessors
PQnfields(r) == Len(r.cols)
PQntuples(r) == Len(r.rows)
PQftype(r, col) == r.cols[col + 1].oid
PQfname(r, col) == r.cols[col + 1].name

\* PQgetvalue(res, row, col): NULL when the row or column is out of range
PQgetvalue(r, row, col) ==
    IF row < PQntuples(r) /\ col < PQnfields(r)
    THEN [null |-> FALSE, text |-> r.rows[row + 1][col + 1]]
    ELSE [null |-> TRUE, text |-> <<>>]

----------------------------------------------------------------------------
(* Messages *)

Message(kind, name, sig, entries) ==
    [kind |-> kind, name |-> name, sig |-> sig, entries |-> entries]

Entry(key, tag, val) == [key |-> key, tag |-> tag, val |-> val]

\* sd_bus_reply_method_return(m, NULL): a method return with no body
VoidReply == Message("method_return", "", "", <<>>)

\* sd_bus_reply_method_errorf(m, SD_BUS_ERROR_INVALID_ARGS, ...)
InvalidArgsReply ==
    Message("error", "org.freedesktop.DBus.Error.InvalidArgs", "s", <<>>)

\* the int given for a "q" is stored as a uint16_t
CastUInt16(n) == n % Radix

\* the reply of Ping with every code the switch has no case for reported as
\* PQPING_NO_ATTEMPT
PingReply_Known(code) ==
    Message("method_return", "", "q",
            <<Entry("", "q", Scalar("uint16_t", IF code > 3 THEN 3 ELSE code, 0, <<>>))>>)

\* sd_bus_reply_method_return(m, "q", rc)
PingReply(code) ==
    Message("method_return", "", "q",
            <<Entry("", "q", Scalar("uint16_t", CastUInt16(code), 0, <<>>))>>)

\* the reply message being built: live once sd_bus_message_new_method_return
\* made it, stack the containers opened and not yet closed
Building(live, sig, entries, stack) ==
    [live |-> live, sig |-> sig, entries |-> entries, stack |-> stack]
NoMsg == Building(FALSE, "", <<>>, <<>>)

\* the handlers' vals[]: vals[0] is the host, vals[1] the text in port[]
Vals(h, p) == [host |-> h, port |-> p]
NoVals == Vals("", <<>>)

Line(text) == [line |-> text, host |-> "", port |-> <<>>]
ConnectingLine(h, p) == [line |-> "connecting to", host |-> h, port |-> p]

Handed(msg, ok) == [msg |-> msg, delivered |-> ok]

\* return code of an sd-bus call
BusRc(ok) == IF ok THEN 0 ELSE 0 - ENOMEM

\* replace the last entry of the message
SetLast(m, e) == [m EXCEPT !.entries = [m.entries EXCEPT ![Len(m.entries)] = e]]
Last(m) == m.entries[Len(m.entries)]
Push(m, c) == [m EXCEPT !.stack = Append(m.stack, c)]
Pop(m) == [m EXCEPT !.stack = SubSeq(m.stack, 1, Len(m.stack) - 1)]

----------------------------------------------------------------------------
(* The decisions of method_query *)

\* the test of rc catching only a call without any argument
ReadFailed_AbsentOnly(body) == body.sig = ""

\* rc < 0 after sd_bus_message_read(m, "s", &query)
ReadFailed(body) == body.sig # "s"

\* the test of PQstatus written with == for !=
ConnectFailed_Inverted(status) == status = "CONNECTION_OK"

\* PQstatus(conn) != CONNECTION_OK
ConnectFailed(status) == status # "CONNECTION_OK"

\* the test of PQresultStatus catching only PGRES_FATAL_ERROR
QueryFailed_ErrorOnly(status) == status = "PGRES_FATAL_ERROR"

\* PQresultStatus(res) != PGRES_TUPLES_OK
\* a result status that is never taken for a failure
QueryFailed_Never(status) == status = "none"

QueryFailed(status) == status # "PGRES_TUPLES_OK"

----------------------------------------------------------------------------
(* Initial state: main() before the first request *)

InitLoop ==
    /\ host = "/tmp"
    /\ port = DefaultPort
    /\ pc = "idle"
    /\ method = "none"
    /\ arg = NoBody
    /\ connStatus = "none"
    /\ res = NoRes
    /\ openConns = 0
    /\ openResults = 0
    /\ nFields = 0
    /\ i = 0
    /\ reply = NoMsg
    /\ sent = <<>>
    /\ rc = 0
    /\ log = <<>>
    /\ dbCalls = <<>>
    /\ prevFailSoft = <<>>
    /\ vals = NoVals

Init ==
    /\ InitLoop
    /\ probe = [oid |-> 0, sig |-> "?"]

\* the handler returns r without replying
ReturnCode(r) ==
    /\ rc' = r
    /\ pc' = "done"

\* a reply handed to the bus a second time after it went through
ReturnReply_Twice(msg) ==
    \E ok \in BOOLEAN :
        /\ sent' = IF ok THEN sent \o <<Handed(msg, ok), Handed(msg, ok)>>
                   ELSE Append(sent, Handed(msg, ok))
        /\ ReturnCode(BusRc(ok))

\* return sd_bus_reply_method_...(m, ...): the message is handed to the bus
\* and the handler returns what the bus says
ReturnReply(msg) ==
    \E ok \in BOOLEAN :
        /\ sent' = Append(sent, Handed(msg, ok))
        /\ ReturnCode(BusRc(ok))

----------------------------------------------------------------------------
(* main: the event loop hands one call at a time to its handler *)

\* sd_bus_process dispatches a Query call to method_query
QueryCall ==
    /\ pc = "idle"
    /\ openConns < MaxOpen
    /\ openResults < MaxOpen
    /\ \E body \in CallBodies : arg' = body
    /\ method' = "Query"
    /\ pc' = "read"
    /\ UNCHANGED <<host, port, connStatus, res, openConns, openResults, nFields, i,
                   reply, sent, rc, log, dbCalls, prevFailSoft, probe, vals>>

\* sd_bus_process dispatches a Ping call to method_ping
PingCall ==
    /\ pc = "idle"
    /\ method' = "Ping"
    /\ arg' = NoBody
    /\ pc' = "ping"
    /\ UNCHANGED <<host, port, connStatus, res, openConns, openResults, nFields, i,
                   reply, sent, rc, log, dbCalls, prevFailSoft, probe, vals>>

\* a write of the Host property served while a handler is running
SetHost_AnyTime ==
    /\ pc # "crashed"
    /\ \E h \in Hosts \ {host} : host' = h
    /\ UNCHANGED <<port, pc, reqVars, openConns, openResults, prevFailSoft, probe>>

\* sd_bus_process serves a write of the Host property
SetHost ==
    /\ pc = "idle"
    /\ \E h \in Hosts \ {host} : host' = h
    /\ UNCHANGED <<port, pc, reqVars, openConns, openResults, prevFailSoft, probe>>

\* sd_bus_process serves a write of the Port property
SetPort ==
    /\ pc = "idle"
    /\ \E p \in Ports \ {port} : port' = p
    /\ UNCHANGED <<host, pc, reqVars, openConns, openResults, prevFailSoft, probe>>

\* the handler has returned: the loop is ready for the next call; the
\* handler's locals are gone
Return ==
    /\ pc = "done"
    /\ pc' = "idle"
    /\ prevFailSoft' =
          IF method = "Query" /\ rc >= 0 /\ ~ReadFailed(arg)
             /\ (ConnectFailed(connStatus) \/ QueryFailed(res.status))
          THEN sent ELSE prevFailSoft
    /\ method' = "none"
    /\ arg' = NoBody
    /\ connStatus' = "none"
    /\ res' = NoRes
    /\ nFields' = 0
    /\ i' = 0
    /\ reply' = NoMsg
    /\ sent' = <<>>
    /\ rc' = 0
    /\ log' = <<>>
    /\ dbCalls' = <<>>
    /\ vals' = NoVals
    /\ UNCHANGED <<host, port, openConns, openResults, probe>>

----------------------------------------------------------------------------
(* method_ping *)

PingLine(code) ==
    CASE code = 0 -> "accepting connections"
      [] code = 1 -> "rejecting connections"
      [] code = 2 -> "no response"
      [] code = 3 -> "no attempt"
      [] OTHER -> "unknown"

\* sprintf(port, "%d", c->port), vals[], rc = PQpingParams(keys, vals, 0) and
\* the switch that logs the code
Ping ==
    /\ pc = "ping"
    /\ vals' = Vals(host, FormatDecimal(port))
    /\ \E code \in PingCodes :
          /\ rc' = code
          /\ dbCalls' = Append(dbCalls, "PQpingParams")
          /\ log' = Append(log, Line(PingLine(code)))
    /\ pc' = "ping_reply"
    /\ UNCHANGED <<host, port, method, arg, connStatus, res, openConns, openResults,
                   nFields, i, reply, sent, prevFailSoft, probe>>

\* return sd_bus_reply_method_return(m, "q", rc)
PingReturn ==
    /\ pc = "ping_reply"
    /\ ReturnReply(PingReply(rc))
    /\ UNCHANGED <<host, port, method, arg, connStatus, res, openConns, openResults,
                   nFields, i, reply, log, dbCalls, prevFailSoft, probe, vals>>

----------------------------------------------------------------------------
(* method_query *)

\* rc = sd_bus_message_read(m, "s", &query); if (rc < 0) return ...errorf(...)
ReadArgs ==
    /\ pc = "read"
    /\ IF ReadFailed(arg)
       THEN ReturnReply(InvalidArgsReply)
       ELSE /\ pc' = "connect"
            /\ UNCHANGED <<sent, rc>>
    /\ UNCHANGED <<host, port, method, arg, connStatus, res, openConns, openResults,
                   nFields, i, reply, log, dbCalls, prevFailSoft, probe, vals>>

\* sprintf(port, "%d", c->port) and vals[] from the context, then
\* conn = PQconnectdbParams(keys, vals, 0) and the test of PQstatus(conn)
Connect ==
    /\ pc = "connect"
    /\ vals' = Vals(host, FormatDecimal(port))
    /\ \E st \in ConnStatuses :
          /\ connStatus' = st
          /\ IF ConnectFailed(st)
             THEN /\ log' = log \o <<ConnectingLine(vals'.host, vals'.port),
                                     Line("Connection to database failed")>>
                  /\ dbCalls' = dbCalls \o <<"PQconnectdbParams", "PQfinish">>
                  /\ openConns' = openConns
                  /\ pc' = "end"
             ELSE /\ log' = Append(log, ConnectingLine(vals'.host, vals'.port))
                  /\ dbCalls' = Append(dbCalls, "PQconnectdbParams")
                  /\ openConns' = openConns + 1
                  /\ pc' = "exec"
    /\ UNCHANGED <<host, port, method, arg, res, openResults, nFields, i, reply,
                   sent, rc, prevFailSoft, probe>>

\* res = PQexec(conn, query), the test of PQresultStatus(res), PQnfields
Exec ==
    /\ pc = "exec"
    /\ \E r \in Results :
          /\ res' = r
          /\ IF QueryFailed(r.status)
             THEN /\ log' = Append(log, Line("query failed"))
                  /\ dbCalls' = dbCalls \o <<"PQexec", "PQclear", "PQfinish">>
                  /\ openResults' = openResults
                  /\ openConns' = openConns - 1
                  /\ nFields' = nFields
                  /\ pc' = "end"
             ELSE /\ log' = Append(log, Line("query succeed!"))
                  /\ dbCalls' = Append(dbCalls, "PQexec")
                  /\ openResults' = openResults + 1
                  /\ openConns' = openConns
                  /\ nFields' = PQnfields(r)
                  /\ pc' = "new_return"
    /\ UNCHANGED <<host, port, method, arg, connStatus, i, reply, sent, rc,
                   prevFailSoft, probe, vals>>

\* one statement "rc = sd_bus_...(reply, ...); if (rc < 0) return rc;":
\* from position at the message becomes next and the handler goes to to
BusStep(at, next, to) ==
    /\ pc = at
    /\ \E ok \in BOOLEAN :
          IF ok
          THEN /\ reply' = next
               /\ pc' = to
               /\ rc' = rc
          ELSE /\ reply' = reply
               /\ ReturnCode(BusRc(FALSE))

\* rc = sd_bus_message_new_method_return(m, &reply)
NewReturn ==
    /\ BusStep("new_return", Building(TRUE, "", <<>>, <<>>), "open_array")
    /\ UNCHANGED <<host, port, method, arg, connStatus, res, openConns, openResults,
                   nFields, i, sent, log, dbCalls, prevFailSoft, probe, vals>>

\* rc = sd_bus_message_open_container(reply, 'a', "{sv}"), then i = 0
OpenArray ==
    /\ BusStep("open_array", Push([reply EXCEPT !.sig = "a{sv}"], "a"), "loop")
    /\ i' = IF pc' = "loop" THEN 0 ELSE i
    /\ UNCHANGED <<host, port, method, arg, connStatus, res, openConns, openResults,
                   nFields, sent, log, dbCalls, prevFailSoft, probe, vals>>

\* i < nFields
Loop ==
    /\ pc = "loop"
    /\ pc' = IF i < nFields THEN "open_entry" ELSE "close_array"
    /\ UNCHANGED <<host, port, method, arg, connStatus, res, openConns, openResults,
                   nFields, i, reply, sent, rc, log, dbCalls, prevFailSoft, probe, vals>>

\* rc = sd_bus_message_open_container(reply, 'e', "sv")
OpenEntry ==
    /\ BusStep("open_entry",
               Push([reply EXCEPT !.entries = Append(@, Entry("", "", Unset))], "e"),
               "append_name")
    /\ UNCHANGED <<host, port, method, arg, connStatus, res, openConns, openResults,
                   nFields, i, sent, log, dbCalls, prevFailSoft, probe, vals>>

\* rc = sd_bus_message_append(reply, "s", PQfname(res, i))
AppendName ==
    /\ pc = "append_name"
    /\ BusStep("append_name",
               SetLast(reply, [Last(reply) EXCEPT !.key = PQfname(res, i)]),
               "open_variant")
    /\ UNCHANGED <<host, port, method, arg, connStatus, res, openConns, openResults,
                   nFields, i, sent, log, dbCalls, prevFailSoft, probe, vals>>

\* rc = sd_bus_message_open_container(reply, 'v', sig), sig being
\* oid_to_signature(PQftype(res, i))
OpenVariant ==
    /\ pc = "open_variant"
    /\ BusStep("open_variant",
               Push(SetLast(reply, [Last(reply) EXCEPT
                                      !.tag = oid_to_signature(PQftype(res, i))]), "v"),
               "append_value")
    /\ UNCHANGED <<host, port, method, arg, connStatus, res, openConns, openResults,
                   nFields, i, sent, log, dbCalls, prevFailSoft, probe, vals>>

\* rc = sd_bus_message_append_pgsql_value(reply, sig[0], oid, PQgetvalue(res, 0, i))
AppendValue ==
    /\ pc = "append_value"
    /\ dbCalls' = Append(dbCalls, "PQgetvalue")
    /\ \E o \in sd_bus_message_append_pgsql_value(
                    oid_to_signature(PQftype(res, i)), PQftype(res, i),
                    PQgetvalue(res, 0, i)) :
          IF o.crash
          THEN /\ pc' = "crashed"
               /\ UNCHANGED <<reply, rc>>
          ELSE IF o.rc < 0
          THEN /\ ReturnCode(o.rc)
               /\ reply' = reply
          ELSE /\ reply' = SetLast(reply, [Last(reply) EXCEPT !.val = o.val])
               /\ pc' = "close_variant"
               /\ rc' = rc
    /\ UNCHANGED <<host, port, method, arg, connStatus, res, openConns, openResults,
                   nFields, i, sent, log, prevFailSoft, probe, vals>>

\* the statement after the value without the close of the variant
CloseVariant_Missing ==
    /\ BusStep("close_variant", reply, "close_entry")
    /\ UNCHANGED <<host, port, method, arg, connStatus, res, openConns, openResults,
                   nFields, i, sent, log, dbCalls, prevFailSoft, probe, vals>>

\* rc = sd_bus_message_close_container(reply): the variant
CloseVariant ==
    /\ BusStep("close_variant", Pop(reply), "close_entry")
    /\ UNCHANGED <<host, port, method, arg, connStatus, res, openConns, openResults,
                   nFields, i, sent, log, dbCalls, prevFailSoft, probe, vals>>

\* rc = sd_bus_message_close_container(reply): the dict entry, then i++
CloseEntry ==
    /\ BusStep("close_entry", Pop(reply), "loop")
    /\ i' = IF pc' = "loop" THEN i + 1 ELSE i
    /\ UNCHANGED <<host, port, method, arg, connStatus, res, openConns, openResults,
                   nFields, sent, log, dbCalls, prevFailSoft, probe, vals>>

\* rc = sd_bus_message_close_container(reply): the array
CloseArray ==
    /\ BusStep("close_array", Pop(reply), "release")
    /\ UNCHANGED <<host, port, method, arg, connStatus, res, openConns, openResults,
                   nFields, i, sent, log, dbCalls, prevFailSoft, probe, vals>>

\* PQclear(res); PQfinish(conn);
Release ==
    /\ pc = "release"
    /\ dbCalls' = dbCalls \o <<"PQclear", "PQfinish">>
    /\ openResults' = openResults - 1
    /\ openConns' = openConns - 1
    /\ pc' = "send"
    /\ UNCHANGED <<host, port, method, arg, connStatus, res, nFields, i, reply,
                   sent, rc, log, prevFailSoft, probe, vals>>

\* rc = sd_bus_send(bus, reply, NULL); return rc;
Send ==
    /\ pc = "send"
    /\ ReturnReply(Message("method_return", "", reply.sig, reply.entries))
    /\ UNCHANGED <<host, port, method, arg, connStatus, res, openConns, openResults,
                   nFields, i, reply, log, dbCalls, prevFailSoft, probe, vals>>

\* end: return sd_bus_reply_method_return(m, NULL);
End ==
    /\ pc = "end"
    /\ ReturnReply(VoidReply)
    /\ UNCHANGED <<host, port, method, arg, connStatus, res, openConns, openResults,
                   nFields, i, reply, log, dbCalls, prevFailSoft, probe, vals>>

Next ==
    \/ QueryCall \/ PingCall \/ SetHost \/ SetPort \/ Return
    \/ Ping \/ PingReturn
    \/ ReadArgs \/ Connect \/ Exec \/ NewReturn \/ OpenArray \/ Loop
    \/ OpenEntry \/ AppendName \/ OpenVariant \/ AppendValue
    \/ CloseVariant \/ CloseEntry \/ CloseArray \/ Release \/ Send \/ End

Spec == Init /\ [][Next]_vars

----------------------------------------------------------------------------
(* The Type Mapper on its own: oid_to_signature applied to every type      *)
(* identifier of 0 .. MaxOid                                               *)

InitMap ==
    /\ InitLoop
    /\ \E o \in 0..MaxOid : probe = [oid |-> o, sig |-> "?"]

MapType ==
    /\ probe.sig = "?"
    /\ probe' = [probe EXCEPT !.sig = oid_to_signature(probe.oid)]
    /\ UNCHANGED <<host, port, pc, reqVars, openConns, openResults, prevFailSoft>>

NextMap == MapType

SpecMap == InitMap /\ [][NextMap]_vars

----------------------------------------------------------------------------
(* The Value Encoder on its own: the body of the loop of method_query for   *)
(* one field, a tag from oid_to_signature and the encoding of a column text *)

\* numerals at the limits of the 16, 32 and 64-bit integers
Numerals ==
    {<<"0">>, <<"0", "0", "7">>,
     <<"3", "2", "7", "6", "7">>, <<"3", "2", "7", "6", "8">>,
     <<"3", "2", "7", "6", "9">>, <<"6", "5", "5", "3", "5">>,
     <<"6", "5", "5", "3", "6">>,
     <<"2", "1", "4", "7", "4", "8", "3", "6", "4", "7">>,
     <<"2", "1", "4", "7", "4", "8", "3", "6", "4", "8">>,
     <<"2", "1", "4", "7", "4", "8", "3", "6", "4", "9">>,
     <<"3", "0", "0", "0", "0", "0", "0", "0", "0", "0">>,
     <<"4", "2", "9", "4", "9", "6", "7", "2", "9", "5">>,
     <<"4", "2", "9", "4", "9", "6", "7", "2", "9", "6">>,
     <<"9", "2", "2", "3", "3", "7", "2", "0", "3", "6",
       "8", "5", "4", "7", "7", "5", "8", "0", "7">>,
     <<"9", "2", "2", "3", "3", "7", "2", "0", "3", "6",
       "8", "5", "4", "7", "7", "5", "8", "0", "8">>,
     <<"9", "2", "2", "3", "3", "7", "2", "0", "3", "6",
       "8", "5", "4", "7", "7", "5", "8", "0", "9">>}

\* the numerals with an optional sign and something that is not a digit
\* after them
LongTexts ==
    {sign \o n \o trail :
        sign \in {<<>>, <<"-">>, <<"+">>}, n \in Numerals,
        trail \in {<<>>, <<"x">>, <<" ", "7">>}}

Alphabet == {"t", "f", "-", "+", "0", "7", "x"}

\* every text of at most MaxLen characters of Alphabet
ShortTexts == UNION {[1..n -> Alphabet] : n \in 0..MaxLen}

\* the types given to the encoder: the ones it has a case for and numeric
EncodeOids == KnownOids \cup {1700}

\* the cases that parse with strtol or strtoll
IntegerOids == {INT2OID, OIDOID, INT4OID, INT8OID}

Field(oid, text) ==
    [oid |-> oid, text |-> text, sig |-> "?", rc |-> 0, crash |-> FALSE, val |-> Unset]

InitEncode ==
    /\ InitLoop
    /\ \/ \E o \in EncodeOids, t \in ShortTexts : probe = Field(o, t)
       \/ \E o \in IntegerOids, t \in LongTexts : probe = Field(o, t)

\* char sig[] = { oid_to_signature(oid), 0 } and
\* rc = sd_bus_message_append_pgsql_value(reply, sig[0], oid, value)
EncodeValue ==
    /\ probe.sig = "?"
    /\ LET sig == oid_to_signature(probe.oid)
       IN  \E o \in sd_bus_message_append_pgsql_value(
                       sig, probe.oid, [null |-> FALSE, text |-> probe.text]) :
              probe' = [probe EXCEPT !.sig = sig, !.rc = o.rc,
                                     !.crash = o.crash, !.val = o.val]
    /\ UNCHANGED <<host, port, pc, reqVars, openConns, openResults, prevFailSoft>>

NextEncode == EncodeValue

SpecEncode == InitEncode /\ [][NextEncode]_vars

----------------------------------------------------------------------------
(* Properties *)

Range(seq) == {seq[j] : j \in 1..Len(seq)}

\* the messages the handler handed to the bus, in order
Msgs == [j \in 1..Len(sent) |-> sent[j].msg]

\* an sd-bus call of the running handler failed
BusFault == rc = 0 - ENOMEM

\* the handler of the current call is over: it returned or the process died
Over == pc \in {"done", "crashed"}

TuplesOk == res.status = "PGRES_TUPLES_OK"

\* C1: between requests, and whenever a handler has returned, every PGconn
\* the process opened has been finished and every PGresult has been cleared.
C1_NothingLeaks ==
    pc \in {"idle", "done"} => openConns = 0 /\ openResults = 0

\* C2: a Query whose first row holds a column of a type the program has no
\* case for ends, when sd-bus itself does not fail, in a delivered method
\* return in which that field is the string-tagged text of the column.
C2_UnknownTypeIsText ==
    (/\ Over /\ method = "Query" /\ TuplesOk /\ PQntuples(res) >= 1
     /\ ~BusFault
     /\ \E c \in 1..PQnfields(res) : res.cols[c].oid \notin KnownOids)
    => /\ pc = "done" /\ rc >= 0
       /\ Len(sent) = 1 /\ sent[1].msg.kind = "method_return"
       /\ Len(sent[1].msg.entries) = PQnfields(res)
       /\ \A c \in 1..PQnfields(res) :
             res.cols[c].oid \notin KnownOids =>
                sent[1].msg.entries[c] =
                   Entry(res.cols[c].name, "s", Scalar("char*", 0, 0, res.rows[1][c]))

\* C3: a Query whose result has the tuples-available status and no row reads
\* and encodes no field value, and is answered with a method return whose
\* mapping has no entry (calls in which sd-bus itself fails set aside).
C3_ZeroRowsEmptyMapping ==
    (method = "Query" /\ TuplesOk /\ PQntuples(res) = 0 /\ ~BusFault)
    => /\ "PQgetvalue" \notin Range(dbCalls)
       /\ pc # "crashed"
       /\ pc = "done" =>
             /\ rc >= 0
             /\ Len(sent) = 1 /\ sent[1].msg.kind = "method_return"
             /\ sent[1].msg.entries = <<>>

\* the three situations of C4
FailSoftSituation ==
    \/ connStatus = "CONNECTION_BAD"
    \/ connStatus = "CONNECTION_OK" /\ res.status \notin {"none", "PGRES_TUPLES_OK"}
    \/ TuplesOk /\ PQntuples(res) = 0

\* C4: the replies of two Query calls, one that hit a connection or query
\* failure and a later one in any of the three situations (connection
\* failure, query failure, success with zero rows), are the same message.
C4_SameReply ==
    (/\ Over /\ method = "Query" /\ FailSoftSituation /\ ~BusFault
     /\ prevFailSoft # <<>>)
    => sent = prevFailSoft

\* C5: a Query call in which sd-bus itself does not fail ends with the
\* handler returning a non-negative code after one reply: the InvalidArgs
\* error when the argument is not a single string, a method return otherwise.
C5_OnlyInvalidArgs ==
    (Over /\ method = "Query" /\ ~BusFault)
    => /\ pc = "done" /\ rc >= 0
       /\ Len(sent) = 1
       /\ IF arg.sig # "s"
          THEN sent[1].msg = InvalidArgsReply
          ELSE sent[1].msg.kind = "method_return"

\* C6: a Query call whose body is absent or is not a single string makes no
\* libpq call and opens no connection, and the handler's reply is the
\* InvalidArgs error.
C6_InvalidArgs ==
    (method = "Query" /\ arg.sig # "s")
    => /\ dbCalls = <<>>
       /\ connStatus = "none"
       /\ pc \in {"read", "done"}
       /\ pc = "done" => Msgs = <<InvalidArgsReply>>

C6_Witness ==
    /\ pc = "done" /\ method = "Query" /\ arg = CallBody("i", "")
    /\ sent = <<Handed(InvalidArgsReply, TRUE)>>

C9_FirstRowMapping ==
    (Over /\ method = "Query" /\ TuplesOk /\ PQntuples(res) >= 1 /\ ~BusFault)
    => /\ pc = "done" /\ rc >= 0
       /\ Msgs = <<Message("method_return", "", "a{sv}",
                     [c \in 1..PQnfields(res) |->
                        Entry(res.cols[c].name,
                              oid_to_signature(res.cols[c].oid),
                              EncodeText(res.cols[c].oid, res.rows[1][c]))])>>

\* the table of section 4.1
TableTag(oid) ==
    IF oid = 16 THEN "b"
    ELSE IF oid = 21 THEN "n"
    ELSE IF oid \in {23, 26} THEN "i"
    ELSE IF oid = 20 THEN "x"
    ELSE IF oid \in {700, 701} THEN "d"
    ELSE "s"

\* C10: oid_to_signature maps boolean to 'b', the 16-bit integer to 'n', the
\* 32-bit integer and the object id to 'i', the 64-bit integer to 'x', both
\* floats to 'd', and every other identifier (text, varchar, bpchar, name,
\* xml, json and the ones it has no case for) to 's'; it has a value for
\* every identifier.
C10_MapType ==
    probe.sig # "?" => probe.sig = TableTag(probe.oid)

C10_Witness == probe = [oid |-> OIDOID, sig |-> "i"]

\* C11: whatever code the probe gives (a code the switch has no case for
\* included), Ping hands the bus exactly one message, a method return of
\* signature "q" whose single value is an unsigned 16-bit number equal to that
\* code; it never replies with an error, never opens a database connection
\* and never executes a query.
C11_PingReply ==
    /\ [](method = "Ping" =>
            /\ connStatus = "none" /\ res = NoRes /\ reply = NoMsg
            /\ Range(dbCalls) \subseteq {"PQpingParams"}
            /\ \A j \in 1..Len(sent) : sent[j].msg.kind = "method_return"
            /\ pc = "done" => Len(sent) = 1)
    /\ [][(pc = "ping_reply" /\ pc' = "done") =>
            Msgs' = <<Message("method_return", "", "q",
                        <<Entry("", "q", Scalar("uint16_t", rc, 0, <<>>))>>)>>]_vars

C11_Witness ==
    /\ pc = "done" /\ method = "Ping" /\ rc >= 0
    /\ Line("unknown") \in Range(log)
    /\ Len(sent) = 1 /\ sent[1].delivered
    /\ sent[1].msg.sig = "q" /\ sent[1].msg.entries[1].val.n = 4

\* C12: the loop serves one request at a time: while a handler runs no other
\* call is dispatched and no property is written, so the host and the port a
\* request hands to libpq are the ones most recently written before it
\* started, and a later write does not reach it.
C12_OneAtATime ==
    /\ [](vals # NoVals =>
            /\ vals.host = host
            /\ SkipDigits(vals.port) = <<>> /\ Accumulate(vals.port, 0) = port)
    /\ [][pc # "idle" =>
            /\ host' = host /\ port' = port
            /\ pc' = "idle" \/ (method' = method /\ arg' = arg)]_vars

C12_Witness ==
    /\ pc = "exec" /\ method = "Query"
    /\ host = "db.example" /\ port = 5432
    /\ vals = Vals("db.example", <<"5", "4", "3", "2">>)
    /\ ConnectingLine("db.example", <<"5", "4", "3", "2">>) \in Range(log)

\* the encoder was applied to the field and no sd-bus call failed
Encoded == probe.sig # "?" /\ probe.rc # 0 - ENOMEM

\* C13: for a boolean column the encoded value is true exactly when the
\* first character of the text is 't'; every other text, the empty one
\* included, gives false; the encoder signals no error of its own.
C13_Boolean ==
    (probe.sig # "?" /\ probe.oid = BOOLOID)
    => /\ ~probe.crash /\ probe.rc \in {0, 0 - ENOMEM}
       /\ probe.rc = 0 =>
            /\ probe.val.n \in {0, 1}
            /\ probe.val.n = 1 <=> (Len(probe.text) >= 1 /\ probe.text[1] = "t")

C13_Witness ==
    /\ probe.oid = BOOLOID /\ probe.sig = "b" /\ probe.rc = 0
    /\ probe.text = <<"t", "x", "f">> /\ probe.val.n = 1

\* Decimal numerals, for stating what a text denotes without parsing it the
\* way the program does.

\* quotient and remainder of a 64-bit unsigned word by ten
DivMod10(w) ==
    LET c4 == w[4]
        c3 == (c4 % 10) * Radix + w[3]
        c2 == (c3 % 10) * Radix + w[2]
        c1 == (c2 % 10) * Radix + w[1]
    IN  [q |-> Word(c1 \div 10, c2 \div 10, c3 \div 10, c4 \div 10), r |-> c1 % 10]

\* the decimal numeral of a 64-bit unsigned word
RECURSIVE UDigits(_)
UDigits(w) ==
    IF w[4] = 0 /\ w[3] = 0 /\ w[2] = 0 /\ w[1] < 10
    THEN <<DigitChar(w[1])>>
    ELSE Append(UDigits(DivMod10(w).q), DigitChar(DivMod10(w).r))

\* the decimal numeral of a 64-bit two's complement word
ToDecimal(w) ==
    IF w[4] >= HalfRadix THEN <<"-">> \o UDigits(Negate(w)) ELSE UDigits(w)

\* a 32-bit signed number as a 64-bit word
IntWord(n) ==
    LET ext == IF n < 0 THEN Radix - 1 ELSE 0
    IN  Word(n % Radix, (n \div Radix) % Radix, ext, ext)

\* the low 32 bits of a 32-bit signed number, read as unsigned
UnsignedWord(n) == Word(n % Radix, (n \div Radix) % Radix, 0, 0)

\* the number an encoded scalar holds, as a 64-bit word
ValueWord(val) == IF val.ctype = "int64_t" THEN val.wide ELSE IntWord(val.n)

Signed(t) == t # <<>> /\ t[1] \in {"-", "+"}

\* the digits of a numeral "[sign]digits..." and its canonical form
RECURSIVE LeadingDigits(_)
LeadingDigits(t) ==
    IF t # <<>> /\ t[1] \in DigitChars
    THEN <<t[1]>> \o LeadingDigits(Tail(t))
    ELSE <<>>

RECURSIVE StripZeros(_)
StripZeros(d) == IF Len(d) > 1 /\ d[1] = "0" THEN StripZeros(Tail(d)) ELSE d

NumeralDigits(t) == LeadingDigits(IF Signed(t) THEN Tail(t) ELSE t)

WellFormed(t) == NumeralDigits(t) # <<>>

Minus(t) == t # <<>> /\ t[1] = "-" /\ StripZeros(NumeralDigits(t)) # <<"0">>

Canonical(t) ==
    IF Minus(t) THEN <<"-">> \o StripZeros(NumeralDigits(t))
    ELSE StripZeros(NumeralDigits(t))

\* a <= b for numerals without sign and leading zeros
RECURSIVE LexLeq(_, _)
LexLeq(a, b) ==
    \/ a = <<>>
    \/ DigitVal(a[1]) < DigitVal(b[1])
    \/ a[1] = b[1] /\ LexLeq(Tail(a), Tail(b))

DecLeq(a, b) == Len(a) < Len(b) \/ (Len(a) = Len(b) /\ LexLeq(a, b))

\* the largest value and the magnitude of the least value of a signed type
MaxOf(ctype) ==
    CASE ctype = "int16_t" -> Word(HalfRadix - 1, 0, 0, 0)
      [] ctype = "int32_t" -> Word(Radix - 1, HalfRadix - 1, 0, 0)
      [] ctype = "int64_t" -> Word(Radix - 1, Radix - 1, Radix - 1, HalfRadix - 1)

MinMagnitudeOf(ctype) ==
    CASE ctype = "int16_t" -> Word(HalfRadix, 0, 0, 0)
      [] ctype = "int32_t" -> Word(0, HalfRadix, 0, 0)
      [] ctype = "int64_t" -> Word(0, 0, 0, HalfRadix)

\* the numeral at the head of t denotes a number of the signed type
InRange(t, ctype) ==
    DecLeq(StripZeros(NumeralDigits(t)),
           UDigits(IF Minus(t) THEN MinMagnitudeOf(ctype) ELSE MaxOf(ctype)))

\* the integer type section 4.2 gives a column type
WidthOf(oid) ==
    IF oid = 21 THEN "int16_t" ELSE IF oid = 23 THEN "int32_t" ELSE "int64_t"

\* C14: for the 16, 32 and 64-bit integer columns, a text that starts with a
\* base-10 numeral (optional sign, digits) denoting a number of the signed
\* range of the width is encoded as that number, whatever non-numeric
\* characters follow the numeral; the encoder signals no error of its own.
C14_Integers ==
    (Encoded /\ probe.oid \in {INT2OID, INT4OID, INT8OID} /\ WellFormed(probe.text))
    => /\ probe.rc = 0 /\ ~probe.crash
       /\ probe.val.ctype = WidthOf(probe.oid)
       /\ InRange(probe.text, WidthOf(probe.oid))
            => ToDecimal(ValueWord(probe.val)) = Canonical(probe.text)

C14_Witness ==
    /\ probe.oid = INT8OID /\ probe.rc = 0 /\ probe.sig = "x"
    /\ probe.text = <<"-", "9", "2", "2", "3", "3", "7", "2", "0", "3", "6",
                      "8", "5", "4", "7", "7", "5", "8", "0", "8", "x">>
    /\ probe.val.wide = Word(0, 0, 0, HalfRadix)

\* the kind of scalar sd-bus reads for a tag, as the C type of the object
KindOf(tag) ==
    CASE tag = "b" -> "int"
      [] tag = "n" -> "int16_t"
      [] tag = "i" -> "int32_t"
      [] tag = "x" -> "int64_t"
      [] tag = "d" -> "double"
      [] tag = "s" -> "char*"

\* C18: for every column type the encoder has a case for, the scalar it
\* writes is of the kind named by the tag oid_to_signature gave for the type,
\* the tag the variant is opened with: boolean with 'b', 16-bit with 'n',
\* 32-bit with 'i', 64-bit with 'x', double with 'd', text with 's'.
C18_KindMatchesTag ==
    (Encoded /\ probe.oid \in KnownOids)
    => /\ probe.rc = 0 /\ ~probe.crash
       /\ probe.sig = TableTag(probe.oid)
       /\ probe.val.ctype = KindOf(probe.sig)

C18_Witness ==
    /\ probe.oid = INT8OID /\ probe.sig = "x" /\ probe.rc = 0
    /\ probe.val.ctype = "int64_t" /\ probe.text = <<"7">>

\* C19: an object-id column is encoded as a signed 32-bit number: a text
\* denoting v in 2^31 .. 2^32-1 is encoded as v - 2^32, a negative number
\* whose low 32 bits read as unsigned are v; a text denoting v in
\* 0 .. 2^31-1 is encoded as v.
C19_ObjectId ==
    (/\ Encoded /\ probe.oid = OIDOID
     /\ ~Signed(probe.text) /\ WellFormed(probe.text))
    => /\ probe.rc = 0 /\ probe.val.ctype = "int32_t" /\ probe.sig = "i"
       /\ IF InRange(probe.text, "int32_t")
          THEN /\ probe.val.n >= 0
               /\ UDigits(IntWord(probe.val.n)) = Canonical(probe.text)
          ELSE DecLeq(Canonical(probe.text), UDigits(Word(Radix - 1, Radix - 1, 0, 0)))
               => /\ probe.val.n < 0
                  /\ UDigits(UnsignedWord(probe.val.n)) = Canonical(probe.text)

C19_Witness ==
    /\ probe.oid = OIDOID /\ probe.sig = "i" /\ probe.rc = 0
    /\ probe.text = <<"3", "0", "0", "0", "0", "0", "0", "0", "0", "0">>
    /\ probe.val.n = 0 - 1294967296

\* every call b of the handler so far came after a call a
Before(a, b) ==
    \A j \in 1..Len(dbCalls) :
        dbCalls[j] = b => \E k \in 1..(j - 1) : dbCalls[k] = a

Count(call) == Cardinality({j \in 1..Len(dbCalls) : dbCalls[j] = call})

\* C15: a Query request goes through its steps in the order received,
\* connection acquired, query executed, replied: the query is executed only
\* on a connection that reached CONNECTION_OK, the mapping reply is started
\* (and a field read) only for a result that reached PGRES_TUPLES_OK, each
\* step is taken at most once, a reply ends the request, and once a step
\* failed the handler performs no later step: it only replies or returns.
C15_StepOrder ==
    /\ [](method = "Query" =>
            /\ arg.sig # "s" => dbCalls = <<>> /\ reply = NoMsg
            /\ Count("PQconnectdbParams") <= 1 /\ Count("PQexec") <= 1
            /\ Before("PQconnectdbParams", "PQexec")
            /\ Before("PQexec", "PQgetvalue")
            /\ "PQexec" \in Range(dbCalls) => connStatus = "CONNECTION_OK"
            /\ (reply.live \/ "PQgetvalue" \in Range(dbCalls))
                 => res.status = "PGRES_TUPLES_OK"
            /\ (rc < 0 \/ sent # <<>>) => pc = "done"
            /\ (connStatus = "CONNECTION_BAD"
                \/ res.status \notin {"none", "PGRES_TUPLES_OK"})
                 => pc \in {"end", "done"})
    /\ [][(method = "Query" /\ pc \in {"end", "done"}) =>
            /\ dbCalls' \in {dbCalls, <<>>}
            /\ reply' = reply \/ pc' = "idle"]_vars

C15_Witness ==
    /\ pc = "done" /\ method = "Query" /\ rc >= 0
    /\ dbCalls = <<"PQconnectdbParams", "PQexec", "PQgetvalue", "PQclear", "PQfinish">>
    /\ Len(sent) = 1 /\ sent[1].delivered /\ sent[1].msg.sig = "a{sv}"

\* C16: an invocation of the Query or Ping handler hands the bus at most one
\* reply, and an invocation that returned a code that is not negative has
\* handed it exactly one, which went through: for Query the InvalidArgs
\* error, the void method return or the mapping, for Ping its code.
C16_OneReply ==
    /\ Len(sent) <= 1
    /\ sent # <<>> => pc = "done" /\ method \in {"Query", "Ping"}
    /\ (pc = "done" /\ rc >= 0) =>
          /\ Len(sent) = 1 /\ sent[1].delivered
          /\ method = "Query" =>
                \/ sent[1].msg \in {InvalidArgsReply, VoidReply}
                \/ sent[1].msg.kind = "method_return" /\ sent[1].msg.sig = "a{sv}"
          /\ method = "Ping" =>
                sent[1].msg.kind = "method_return" /\ sent[1].msg.sig = "q"

C16_Witness ==
    /\ pc = "done" /\ method = "Query" /\ rc >= 0
    /\ Len(sent) = 1 /\ sent[1].delivered
    /\ sent[1].msg.sig = "a{sv}" /\ Len(sent[1].msg.entries) = 2

\* the containers open at a position of the loop of method_query
StackAt(at) ==
    CASE at \in {"loop", "open_entry", "close_array"} -> <<"a">>
      [] at \in {"append_name", "open_variant", "close_entry"} -> <<"a", "e">>
      [] at \in {"append_value", "close_variant"} -> <<"a", "e", "v">>
      [] OTHER -> <<>>

\* C17: while the reply of a Query is built its containers nest strictly, the
\* array holding per field a dict entry holding a variant: every step opens
\* one container inside the innermost open one or closes the innermost one,
\* and when the reply is sent (after none, one or more fields) no container
\* is open.
C17_Nesting ==
    /\ [](method = "Query" =>
            /\ reply.stack \in {<<>>, <<"a">>, <<"a", "e">>, <<"a", "e", "v">>}
            /\ pc \notin {"crashed", "done"} => reply.stack = StackAt(pc)
            /\ (pc = "done" /\ rc >= 0) => reply.stack = <<>>
            /\ pc = "send" => reply.live /\ Len(reply.entries) = nFields)
    /\ [][pc' # "idle" =>
            \/ reply'.stack = reply.stack
            \/ \E c \in {"a", "e", "v"} :
                  \/ reply'.stack = Append(reply.stack, c)
                  \/ reply.stack = Append(reply'.stack, c)]_vars
    /\ [][(pc = "send" /\ pc' = "done") =>
            /\ reply.stack = <<>>
            /\ Msgs' = <<Message("method_return", "", "a{sv}", reply.entries)>>]_vars

C17_Witness ==
    /\ pc = "send" /\ method = "Query" /\ nFields = 2
    /\ reply.live /\ reply.stack = <<>> /\ Len(reply.entries) = 2

============================================================================
